---- MODULE Spec2Model ----
(***************************************************************************)
(* Model of src/src/rational.rs: the exact rational type `Rational`, a     *)
(* wrapper around malachite's Rational (a sign flag plus two unsigned      *)
(* Naturals held in lowest terms), with its predicates, inversion,         *)
(* float projection, fractional power splitting, classification flags      *)
(* and constructors.                                                       *)
(*                                                                         *)
(* Every public operation is one action: it draws its arguments from a     *)
(* bounded set, records them in self / rhs / pair and stores what the call *)
(* produced in ret.  The 64-bit machine integers of the source are scaled  *)
(* to WordBits bits and the 53-bit f64 mantissa to MantBits bits.          *)
(***************************************************************************)
EXTENDS Integers, FiniteSets

VARIABLES op, self, rhs, pair, overflow_checks, ret

vars == <<op, self, rhs, pair, overflow_checks, ret>>

----------------------------------------------------------------------------
(* Bounds *)

\* width of i64 / u64 in the model (64 in the source)
WordBits == 3
\* mantissa width of f64 in the model (53 in the source)
MantBits == 2
\* largest numerator / denominator of a base passed to pow
MaxBase == 3
\* largest denominator of the other arguments
MaxDen == 3

I64Max == 2 ^ (WordBits - 1) - 1
I64Min == 0 - 2 ^ (WordBits - 1)
U64Max == 2 ^ WordBits - 1
I64 == I64Min .. I64Max

\* numerators reach past i64::MAX + 1 so that try_into_int can fail
MaxNum == I64Max + 2
\* exponent numerators reach past 2 * (u64::MAX + 1) so that both an integer
\* exponent and a quotient can be too large for u64
MaxExpNum == 2 * (U64Max + 1) + 1

----------------------------------------------------------------------------
(* malachite substrate, as used by rational.rs *)

RECURSIVE GCD(_, _)
GCD(a, b) == IF b = 0 THEN a ELSE GCD(b, a % b)

\* mal::Rational::from_naturals(n, d), d # 0: non-negative, lowest terms
from_naturals(n, d) ==
    LET g == GCD(n, d) IN [den |-> d \div g, num |-> n \div g, sign |-> TRUE]

\* mal::Rational::const_from_signed
const_from_signed(v) ==
    [den |-> 1, num |-> IF v < 0 THEN 0 - v ELSE v, sign |-> v >= 0]

zero == const_from_signed(0)
one == const_from_signed(1)
minus_one == const_from_signed(0 - 1)

\* self.0.sign()
sign(x) ==
    IF x.sign THEN (IF x.num = 0 THEN "Equal" ELSE "Greater") ELSE "Less"

\* self.0 * rhs.0
mul(x, y) ==
    LET r == from_naturals(x.num * y.num, x.den * y.den)
    IN [r EXCEPT !.sign = (r.num = 0) \/ (x.sign = y.sign)]

\* self.0 / rhs.0 with rhs # 0
mal_div(x, y) ==
    LET r == from_naturals(x.num * y.den, x.den * y.num)
    IN [r EXCEPT !.sign = (r.num = 0) \/ (x.sign = y.sign)]

\* self.0.pow_assign(exp): exp-fold product
RECURSIVE pow_assign(_, _), pow_assign_one_short(_, _)
pow_assign_one_short(x, k) ==
    IF k <= 1 THEN one ELSE mul(pow_assign_one_short(x, k - 1), x)

pow_assign(x, k) ==
    IF k = 0 THEN one ELSE mul(pow_assign(x, k - 1), x)

None == [tag |-> "None"]
Some(v) == [tag |-> "Some", val |-> v]
Panic == [tag |-> "panic"]

----------------------------------------------------------------------------
(* impl Rational *)

is_zero(x) == sign(x) = "Equal"
is_pos(x) == sign(x) = "Greater"
is_neg(x) == sign(x) = "Less"
is_int(x) == x.den = 1

\* numerator_ref() is the unsigned Natural; i64::try_from fails above i64::MAX
try_into_int(x) ==
    IF is_int(x)
    THEN (IF x.num <= I64Max THEN Some(x.num) ELSE None)
    ELSE None

inverse_keep_pos(x) ==
    IF is_zero(x) THEN None ELSE Some(from_naturals(x.den, x.num))

inverse(x) ==
    IF is_zero(x)
    THEN None
    ELSE LET r == from_naturals(x.den, x.num)
         IN Some(IF is_neg(x) THEN mul(r, minus_one) ELSE r)

abs(x) == [x EXCEPT !.sign = TRUE]


\* number of significant bits of n
RECURSIVE BitLen(_)
BitLen(n) == IF n = 0 THEN 0 ELSE 1 + BitLen(n \div 2)

\* f64::rounding_from(&Natural, RoundingMode::Down): keep the leading
\* MantBits bits, clear the rest
rounding_from_down(n) ==
    LET k == BitLen(n)
    IN IF k <= MantBits
       THEN n
       ELSE (n \div 2 ^ (k - MantBits)) * 2 ^ (k - MantBits)

\* the float is kept as the pair of rounded operands of the final division
to_float(x) ==
    [num |-> rounding_from_down(x.num),
     tag |-> "float",
     denom |-> rounding_from_down(x.den)]

\* sign of the f64 quotient num / denom (denom # 0)
Signum(v) == IF v < 0 THEN 0 - 1 ELSE IF v = 0 THEN 0 ELSE 1
float_sign(f) == Signum(f.num) * Signum(f.denom)

Ret(b, e) == [tag |-> "ok", base |-> b, exp |-> e]

\* rational.rs 116-120: a negative exponent inverts the base
pow_invert_keep_base(b, e) ==
    IF is_neg(e)
    THEN (IF inverse(b).tag = "None" THEN Panic ELSE Ret(b, abs(e)))
    ELSE Ret(b, e)

pow_invert(b, e) ==
    IF is_neg(e)
    THEN (IF inverse(b).tag = "None" THEN Panic ELSE Ret(inverse(b).val, abs(e)))
    ELSE Ret(b, e)

\* rational.rs 124-132: integer exponent
pow_int_drop_residual(b, e) ==
    IF e.num <= U64Max THEN Ret(pow_assign(b, e.num), one) ELSE Ret(b, one)

pow_int(b, e) ==
    IF e.num <= U64Max THEN Ret(pow_assign(b, e.num), one) ELSE Ret(b, e)

\* rational.rs 134-148: non-integer exponent
pow_frac(b, e) ==
    IF e.num > e.den
    THEN LET quot == e.num \div e.den
             rem == e.num % e.den
             rem_exp == const_from_signed(rem)
         IN IF quot <= U64Max THEN Ret(pow_assign(b, quot), rem_exp) ELSE Ret(b, e)
    ELSE Ret(b, e)

pow_zero_exp_returns_base(b, e) ==
    IF is_zero(b) /\ is_zero(e) THEN Panic
    ELSE IF is_zero(e) THEN Ret(b, one)
    ELSE LET inv == pow_invert(b, e)
         IN IF inv.tag = "panic" THEN Panic
            ELSE IF is_int(inv.exp) THEN pow_int(inv.base, inv.exp)
            ELSE pow_frac(inv.base, inv.exp)

pow(b, e) ==
    IF is_zero(b) /\ is_zero(e) THEN Panic
    ELSE IF is_zero(e) THEN Ret(one, one)
    ELSE LET inv == pow_invert(b, e)
         IN IF inv.tag = "panic" THEN Panic
            ELSE IF is_int(inv.exp) THEN pow_int(inv.base, inv.exp)
            ELSE pow_frac(inv.base, inv.exp)

----------------------------------------------------------------------------
(* impl CalcursType for Rational *)

\* the flags of calcu_rs::pattern::Item that desc() uses
Item == {"Rational", "Integer", "UOne", "Zero", "Pos", "Neg"}

sign_flag(x) ==
    IF sign(x) = "Less" THEN "Neg"
    ELSE IF sign(x) = "Equal" THEN "Zero"
    ELSE "Pos"

desc_uone_outside_int(x) ==
    {"Rational"}
        \cup (IF is_int(x) THEN {"Integer"} ELSE {})
        \cup (IF x.num = 1 THEN {"UOne"} ELSE {})
        \cup {sign_flag(x)}

desc(x) ==
    {"Rational"}
        \cup (IF is_int(x)
              THEN {"Integer"} \cup (IF x.num = 1 THEN {"UOne"} ELSE {})
              ELSE {})
        \cup {sign_flag(x)}

----------------------------------------------------------------------------
(* operators and constructors *)

\* impl ops::Div
div(x, y) == IF is_zero(y) THEN None ELSE Some(mal_div(x, y))

\* i64 multiplication in a build without overflow checks
wrapping_mul(n, d) == ((n * d - I64Min) % 2 ^ WordBits) + I64Min

unsigned_abs(v) == IF v < 0 THEN 0 - v ELSE v

\* impl From<(i64, i64)>; checks = overflow checks compiled in (debug build)
from_i64_pair(n, d, checks) ==
    IF checks /\ (n * d < I64Min \/ n * d > I64Max) THEN Panic
    ELSE IF d = 0 THEN Panic
    ELSE LET neg == wrapping_mul(n, d) < 0
             r == from_naturals(unsigned_abs(n), unsigned_abs(d))
         IN Some(IF neg THEN mul(r, minus_one) ELSE r)

----------------------------------------------------------------------------
(* argument sets *)

RatsUpTo(maxNum, maxDen) ==
    {[den |-> d, num |-> n, sign |-> s] :
        d \in 1 .. maxDen, n \in 0 .. maxNum, s \in BOOLEAN}

\* a value malachite can hold: lowest terms, zero is +0/1
Canonical(x) == GCD(x.num, x.den) = 1 /\ (x.num = 0 => x.sign)

Rationals == {x \in RatsUpTo(MaxNum, MaxDen) : Canonical(x)}
Bases == {x \in RatsUpTo(MaxBase, MaxBase) : Canonical(x)}
Exponents == {x \in RatsUpTo(MaxExpNum, MaxDen) : Canonical(x)}

NoPair == <<0, 1>>

----------------------------------------------------------------------------
(* state machine: one action per call *)

Init ==
    /\ op = "new"
    /\ self = zero
    /\ rhs = zero
    /\ pair = NoPair
    /\ overflow_checks \in BOOLEAN
    /\ ret = Some(zero)

\* No call reads what an earlier call left behind (values are immutable and
\* every operation is a function of its arguments), so a behaviour makes one
\* call from the initial state.
Call(name, a, b, p, r) ==
    /\ op = "new"
    /\ op' = name
    /\ self' = a
    /\ rhs' = b
    /\ pair' = p
    /\ ret' = r
    /\ UNCHANGED overflow_checks

FromPair ==
    \E n \in I64, d \in I64 :
        Call("from", zero, zero, <<n, d>>, from_i64_pair(n, d, overflow_checks))

TryIntoInt ==
    \E x \in Rationals : Call("try_into_int", x, zero, NoPair, try_into_int(x))

Inverse ==
    \E x \in Rationals : Call("inverse", x, zero, NoPair, inverse(x))

Abs ==
    \E x \in Rationals : Call("abs", x, zero, NoPair, Some(abs(x)))

ToFloat ==
    \E x \in Rationals : Call("to_float", x, zero, NoPair, to_float(x))

Pow ==
    \E x \in Bases, e \in Exponents : Call("pow", x, e, NoPair, pow(x, e))

Desc ==
    \E x \in Rationals :
        Call("desc", x, zero, NoPair, [tag |-> "flags", flags |-> desc(x)])

Mul ==
    \E x \in Rationals, y \in Rationals : Call("mul", x, y, NoPair, Some(mul(x, y)))

Div ==
    \E x \in Rationals, y \in Rationals : Call("div", x, y, NoPair, div(x, y))

Next ==
    \/ FromPair
    \/ TryIntoInt
    \/ Inverse
    \/ Abs
    \/ ToFloat
    \/ Pow
    \/ Desc
    \/ Mul
    \/ Div

Spec == Init /\ [][Next]_vars

TypeOK ==
    /\ op \in {"new", "from", "try_into_int", "inverse", "abs", "to_float",
               "pow", "desc", "mul", "div"}
    /\ Canonical(self) /\ Canonical(rhs)
    /\ overflow_checks \in BOOLEAN

----------------------------------------------------------------------------
(* properties *)

\* x^n written out: n-th powers of numerator and denominator, negative iff
\* x is negative and n is odd
ExactPower(x, n) ==
    [den |-> x.den ^ n, num |-> x.num ^ n, sign |-> x.sign \/ n % 2 = 0]

Frac(s, n, d) == [den |-> d, num |-> n, sign |-> s]

\* C1: for a positive non-integer exponent p/q with p > q whose quotient
\* fits u64, pow returns (x^quotient, remainder/q), the residual being the
\* fractional part of p/q.
C1_PowSplitsFraction ==
    (op = "pow" /\ is_pos(rhs) /\ ~is_int(rhs) /\ rhs.num > rhs.den
        /\ rhs.num \div rhs.den <= U64Max)
    => /\ ret.tag = "ok"
       /\ ret = Ret(ExactPower(self, rhs.num \div rhs.den),
                    from_naturals(rhs.num % rhs.den, rhs.den))

\* C2: try_into_int(from((n, 1))) = Some(n) for every i64 n, and
\* try_into_int is None exactly when the value is no integer or its integer
\* value lies outside the i64 range.
IntValue(x) == IF x.sign THEN x.num ELSE 0 - x.num

C2_IntRoundTrip ==
    op = "try_into_int"
    => /\ \A n \in I64 :
            from_i64_pair(n, 1, overflow_checks).tag = "Some"
            /\ from_i64_pair(n, 1, overflow_checks).val = self
            => ret.tag = "Some" /\ ret.val = n
       /\ (ret.tag = "None") <=> (~is_int(self) \/ IntValue(self) \notin I64)

\* C3: for all i64 n and non-zero i64 d, from((n, d)) completes and yields
\* |n|/|d| in lowest terms with positive denominator, negative exactly when
\* n and d have opposite signs.
C3_FromSignedPair ==
    (op = "from" /\ pair[2] # 0)
    => LET n == pair[1]
           d == pair[2]
           g == GCD(unsigned_abs(n), unsigned_abs(d))
       IN /\ ret.tag = "Some"
          /\ ret.val = Frac(~(Signum(n) * Signum(d) < 0),
                            unsigned_abs(n) \div g, unsigned_abs(d) \div g)

\* C4: with a negative exponent e, pow(x, e) returns what
\* pow(inverse(x), |e|) returns when x is non-zero, and panics when x is zero.
C4_PowNegativeExponent ==
    (op = "pow" /\ is_neg(rhs))
    => IF is_zero(self)
       THEN ret.tag = "panic"
       ELSE /\ ret.tag = "ok"
            /\ ret = pow(Frac(self.sign, self.den, self.num),
                         Frac(TRUE, rhs.num, rhs.den))

C4_Witness ==
    /\ op = "pow"
    /\ self = Frac(TRUE, 2, 1)
    /\ rhs = minus_one
    /\ ret = Ret(Frac(TRUE, 1, 2), one)

\* C5: pow(x, 0) returns (1, 1) for every non-zero x, and pow(0, 0) panics.
C5_PowZeroExponent ==
    (op = "pow" /\ is_zero(rhs))
    => IF is_zero(self)
       THEN ret.tag = "panic"
       ELSE ret.tag = "ok" /\ ret = Ret(one, one)

C5_Witness ==
    /\ op = "pow"
    /\ self = Frac(FALSE, 2, 3)
    /\ rhs = zero
    /\ ret = Ret(one, one)

\* C6: for a positive integer exponent n that fits u64, pow(x, n) returns
\* (x^n, 1) with x^n exact, signed and in lowest terms.
C6_PowIntegerExponent ==
    (op = "pow" /\ is_pos(rhs) /\ is_int(rhs) /\ rhs.num <= U64Max)
    => /\ ret.tag = "ok"
       /\ ret = Ret(ExactPower(self, rhs.num), one)
       /\ Canonical(ret.base)

C6_Witness ==
    /\ op = "pow"
    /\ self = Frac(FALSE, 2, 3)
    /\ rhs = Frac(TRUE, 3, 1)
    /\ ret = Ret(Frac(FALSE, 8, 27), one)

\* C7: pow returns (base, exponent) unchanged for a positive non-integer
\* exponent p/q with p <= q and for a positive integer exponent too large
\* for u64, where the residual returned is not 1.
C7_PowUnchanged ==
    /\ (op = "pow" /\ is_pos(rhs) /\ ~is_int(rhs) /\ rhs.num <= rhs.den)
       => ret.tag = "ok" /\ ret = Ret(self, rhs)
    /\ (op = "pow" /\ is_pos(rhs) /\ is_int(rhs) /\ rhs.num > U64Max)
       => ret.tag = "ok" /\ ret = Ret(self, rhs) /\ ret.exp # one

C7_Witness ==
    /\ op = "pow"
    /\ self = Frac(TRUE, 2, 1)
    /\ rhs = Frac(TRUE, U64Max + 1, 1)
    /\ ret = Ret(self, rhs)

\* C8: desc() contains Rational, exactly one of Zero/Pos/Neg in agreement
\* with is_zero/is_pos/is_neg, Integer iff is_int(), and UOne iff the
\* magnitude is exactly one.
C8_DescConsistent ==
    op = "desc"
    => /\ ret.flags \subseteq Item
       /\ "Rational" \in ret.flags
       /\ Cardinality(ret.flags \cap {"Zero", "Pos", "Neg"}) = 1
       /\ ("Zero" \in ret.flags) <=> is_zero(self)
       /\ ("Pos" \in ret.flags) <=> is_pos(self)
       /\ ("Neg" \in ret.flags) <=> is_neg(self)
       /\ ("Integer" \in ret.flags) <=> is_int(self)
       /\ ("UOne" \in ret.flags) <=> (self.num = self.den)

C8_Witness ==
    /\ op = "desc"
    /\ self = minus_one
    /\ ret.flags = {"Rational", "Integer", "UOne", "Neg"}

\* C9: inverse(0) = None and a / 0 = None; for non-zero b, inverse(b) has
\* the sign of b with numerator and denominator swapped,
\* inverse(inverse(b)) = b, and a / b = Some(a * inverse(b)).
C9_InverseAndDiv ==
    /\ op = "inverse"
       => IF is_zero(self)
          THEN ret.tag = "None"
          ELSE /\ ret.tag = "Some"
               /\ ret.val = Frac(self.sign, self.den, self.num)
               /\ inverse(ret.val).tag = "Some"
               /\ inverse(ret.val).val = self
    /\ op = "div"
       => IF is_zero(rhs)
          THEN ret.tag = "None"
          ELSE /\ ret.tag = "Some"
               /\ inverse(rhs).tag = "Some"
               /\ ret.val = mul(self, inverse(rhs).val)

C9_Witness ==
    /\ op = "div"
    /\ self = Frac(TRUE, 1, 2)
    /\ rhs = Frac(FALSE, 2, 3)
    /\ ret.tag = "Some"
    /\ ret.val = Frac(FALSE, 3, 4)

\* C10: to_float preserves sign: negative for negative x, zero for zero,
\* positive for positive x.
C10_ToFloatSign ==
    op = "to_float"
    => float_sign(ret) =
           (IF is_neg(self) THEN 0 - 1 ELSE IF is_zero(self) THEN 0 ELSE 1)

====
